---- MODULE Spec2Model ----
(***************************************************************************)
(* State-machine model of DatabricksGenieNLQTool                           *)
(* (src/src/data_analyst/tools/databricks_tools.py): construction, the     *)
(* rate-limited request helper and the _run() calls made on the client,    *)
(* one after another, each with its submit, poll, attachment scan, result  *)
(* fetch and report steps.                                                 *)
(*                                                                         *)
(* Python values are records tagged by t: "absent" (key missing from a     *)
(* dict), "null" (None), "str", "obj" (a dict), "list".  Text that the     *)
(* code builds (notes, error messages, URLs, the report) is built here as  *)
(* real strings so that substring tests are decided by the text itself.    *)
(* The clock advances by time.sleep only; the time a request itself takes  *)
(* is not modelled (it can only add to every elapsed time shown here).     *)
(* The code reads the clock only as time.time() - start_time, so the clock *)
(* is kept from an epoch that is the entry of _run until line 189 assigns  *)
(* start_time, and that assignment from then on.                           *)
(***************************************************************************)
EXTENDS Integers, Sequences, FiniteSets, TLC

VARIABLES
    pc,                 \* position of the single caller thread
    env,                \* process environment read by __init__
    self_inst,          \* self._databricks_instance
    self_space,         \* self._genie_space_id
    self_token,         \* self._auth_token
    args,               \* arguments of the running _run call
    callee,             \* which step of _run is inside _rate_limited_request
    url,                \* url argument of the running _rate_limited_request
    retry_count,        \* local of _rate_limited_request
    answers,            \* status of the answer to each HTTP attempt of the running
                        \* _rate_limited_request (0: no response came back)
    sleeps,             \* backoff sleeps made by the running _rate_limited_request
    ret,                \* how the last _rate_limited_request ended
    now,                \* time.time(), in seconds since the epoch below
    start_time,         \* local of _run
    polls,              \* poll operations begun by this _run
    message_id,
    current_conversation_id,
    current_db_instance,
    output_parts,
    genie_response_text,
    generated_sql,
    attachment_id_for_results,
    poll_data,          \* the poll response whose status was COMPLETED
    results_url,        \* url of the query-result GET, "" until it is built
    query_results_str,
    outcome,            \* "running", "returned" or "raised"
    result              \* the string _run returned ("" until it returns)

cfgvars  == <<env, self_inst, self_space, self_token>>
callvars == <<callee, url, retry_count, answers, sleeps, ret>>
scanvars == <<genie_response_text, generated_sql, attachment_id_for_results, poll_data>>
idvars   == <<message_id, current_conversation_id, current_db_instance>>
endvars  == <<results_url, query_results_str, outcome, result>>
vars == <<pc, args, now, start_time, polls, output_parts,
          cfgvars, callvars, scanvars, idvars, endvars>>

----------------------------------------------------------------------------
(* Bounds of the model *)

MaxAttachments == 2     \* longest attachments list a poll response carries

\* max_retries as it would be with one attempt more
MoreRetries == 3 + 1

(* Program constants *)

max_retries == 3
backoff_factor == 2
max_len == 600

----------------------------------------------------------------------------
(* Python values *)

Absent == [t |-> "absent"]
Null == [t |-> "null"]
Str(s) == [t |-> "str", v |-> s]
IdObj(i) == [t |-> "obj", id |-> i]

\* bool(v) of Python
Truthy(v) ==
    CASE v.t = "str" -> v.v # ""
      [] v.t = "obj" -> TRUE
      [] OTHER -> FALSE

\* d.get(key) where v is what d holds under key
Get(v) == IF v = Absent THEN Null ELSE v

\* d.get(key, default)
GetOr(v, default) == IF v = Absent THEN default ELSE v

(* Text *)

Contains(h, n) ==
    \E i \in 1..(Len(h) - Len(n) + 1) : SubSeq(h, i, i + Len(n) - 1) = n

IndexOf(h, n) ==
    IF Contains(h, n)
    THEN CHOOSE i \in 1..(Len(h) - Len(n) + 1) :
            /\ SubSeq(h, i, i + Len(n) - 1) = n
            /\ \A j \in 1..(i - 1) : SubSeq(h, j, j + Len(n) - 1) # n
    ELSE 0

\* h.split(n)[1], for h that contains n
SplitSecond(h, n) ==
    LET rest == SubSeq(h, IndexOf(h, n) + Len(n), Len(h))
    IN  IF Contains(rest, n) THEN SubSeq(rest, 1, IndexOf(rest, n) - 1) ELSE rest

RECURSIVE RStripSlash(_)
RStripSlash(s) ==
    IF Len(s) > 0 /\ SubSeq(s, Len(s), Len(s)) = "/"
    THEN RStripSlash(SubSeq(s, 1, Len(s) - 1))
    ELSE s

LowerChar(c) ==
    CASE c = "A" -> "a" [] c = "B" -> "b" [] c = "C" -> "c" [] c = "D" -> "d"
      [] c = "E" -> "e" [] c = "F" -> "f" [] c = "G" -> "g" [] c = "H" -> "h"
      [] c = "I" -> "i" [] c = "J" -> "j" [] c = "K" -> "k" [] c = "L" -> "l"
      [] c = "M" -> "m" [] c = "N" -> "n" [] c = "O" -> "o" [] c = "P" -> "p"
      [] c = "Q" -> "q" [] c = "R" -> "r" [] c = "S" -> "s" [] c = "T" -> "t"
      [] c = "U" -> "u" [] c = "V" -> "v" [] c = "W" -> "w" [] c = "X" -> "x"
      [] c = "Y" -> "y" [] c = "Z" -> "z" [] OTHER -> c

\* str.lower()
RECURSIVE Lower(_)
Lower(s) ==
    IF Len(s) = 0 THEN ""
    ELSE LowerChar(SubSeq(s, 1, 1)) \o Lower(SubSeq(s, 2, Len(s)))

\* "\n".join(parts)
RECURSIVE JoinLines(_)
JoinLines(parts) ==
    IF Len(parts) = 0 THEN ""
    ELSE IF Len(parts) = 1 THEN parts[1]
    ELSE parts[1] \o "\n" \o JoinLines(Tail(parts))

\* " ".join(parts)
RECURSIVE JoinSpace(_)
JoinSpace(parts) ==
    IF Len(parts) = 0 THEN ""
    ELSE IF Len(parts) = 1 THEN parts[1]
    ELSE parts[1] \o " " \o JoinSpace(Tail(parts))

\* " | ".join(parts)
RECURSIVE JoinBar(_)
JoinBar(parts) ==
    IF Len(parts) = 0 THEN ""
    ELSE IF Len(parts) = 1 THEN parts[1]
    ELSE parts[1] \o " | " \o JoinBar(Tail(parts))

\* [p for p in parts if p]
RECURSIVE NonEmpty(_)
NonEmpty(parts) ==
    IF Len(parts) = 0 THEN <<>>
    ELSE IF Head(parts) = "" THEN NonEmpty(Tail(parts))
    ELSE <<Head(parts)>> \o NonEmpty(Tail(parts))

\* str(status_code) for the status codes the modelled server sends
StatusText(c) ==
    CASE c = 200 -> "200" [] c = 202 -> "202" [] c = 401 -> "401"
      [] c = 403 -> "403" [] c = 404 -> "404" [] c = 429 -> "429"
      [] c = 500 -> "500" [] OTHER -> "???"

\* str(v) of an Optional[str]
PyStr(v) == IF v.t = "str" THEN v.v ELSE "None"

----------------------------------------------------------------------------
(* Inputs: what the environment, the caller and the server may supply *)

EnvValues == {Null, Str(""), Str("https://adb-1.azuredatabricks.net/")}
SpaceValues == {Null, Str("sp1")}
TokenValues == {Null, Str("dapi-tok")}

Queries == {"Top Sales"}
ConversationIds == {Null, Str("c1")}

\* polling interval and timeout, in seconds.  The interval is positive: the
\* clock of the model advances by sleeping only, so that the timeout ends
\* every poll loop
PollTimings ==
    {[interval |-> 1, timeout |-> 0], [interval |-> 15, timeout |-> 29]}

RunArgs ==
    {[natural_language_query |-> q, conversation_id |-> c,
      fetch_query_results |-> f, polling_interval_seconds |-> p.interval,
      polling_timeout_seconds |-> p.timeout] :
        q \in Queries, c \in ConversationIds, f \in BOOLEAN, p \in PollTimings}

NoArgs ==
    [natural_language_query |-> "", conversation_id |-> Null,
     fetch_query_results |-> FALSE, polling_interval_seconds |-> 0,
     polling_timeout_seconds |-> 0]

\* HTTP responses with a status other than 200 and 429: status, body text
\* and the x-request-id header
ErrorResponses ==
    {[status |-> 404, text |-> "RESOURCE_DOES_NOT_EXIST", rid |-> Absent],
     [status |-> 500, text |-> "internal", rid |-> Str("r-77")]}

Response429 == [status |-> 429, text |-> "slow down", rid |-> Absent]

\* JSON bodies of a 200 answer to the submit POST (either endpoint)
SubmitBodies ==
    {[t |-> "obj", id |-> i, conversation |-> c, message |-> m] :
        i \in {Absent, Str("m7"), Str("m8")},
        c \in {Absent, Null, IdObj(Absent), IdObj(Str("c9"))},
        m \in {Absent, Null, IdObj(Absent), IdObj(Str("m8"))}}
    \cup {Null, [t |-> "list"]}

\* elements of "attachments": with or without an attachment_id, a text-only
\* element, one with SQL and no description, one with description and SQL;
\* one whose query object has no real SQL beside a nested text; and "bad",
\* a JSON null in the list
QueryObject(d, q) == [t |-> "obj", description |-> d, query |-> q]

AttachmentShape(has_id, query, text) ==
    [kind |-> "dict", has_id |-> has_id, query |-> query, text |-> text]

AttachmentShapes ==
    {AttachmentShape(h, Absent, Str("Plain answer")) : h \in BOOLEAN}
    \cup {AttachmentShape(h, QueryObject(Absent, Str("SELECT 2")), Absent) : h \in BOOLEAN}
    \cup {AttachmentShape(h, QueryObject(Str("Sales by region"), Str("SELECT 1")), Absent) :
            h \in BOOLEAN}
    \cup {AttachmentShape(TRUE, QueryObject(Absent, Str("No SQL string in query object.")),
                          [t |-> "obj", content |-> Str("Nested answer")])}
    \cup {[kind |-> "bad", has_id |-> FALSE, query |-> Absent, text |-> Absent]}

AttachmentIdAt(i) ==
    CASE i = 1 -> "att-1" [] i = 2 -> "att-2" [] i = 3 -> "att-3" [] OTHER -> "att-n"

\* attachments lists: the i-th element, when it has an id, has the id of position i
AttachmentLists ==
    UNION {{[i \in 1..n |->
                [kind |-> f[i].kind,
                 attachment_id |-> IF f[i].has_id THEN Str(AttachmentIdAt(i)) ELSE Absent,
                 query |-> f[i].query,
                 text |-> f[i].text]] : f \in [1..n -> AttachmentShapes]}
           : n \in 1..MaxAttachments}

ContentValues ==
    {Absent, Null, Str("Top Sales"), Str("top sales"), Str("42 rows"),
     [t |-> "obj", content |-> Str("TOP SALES")],
     [t |-> "obj", content |-> Str("7 rows")],
     [t |-> "obj", content |-> Absent]}

PollBody(status, attachments, content, error) ==
    [t |-> "obj", status |-> status, attachments |-> attachments,
     content |-> content, error |-> error]

\* JSON bodies of a 200 answer to the poll GET
PollBodies ==
    {Null, [t |-> "list"]}
    \cup {PollBody(s, Absent, Absent, Absent) :
            s \in {Str("IN_PROGRESS"), Str("EXECUTING_QUERY"), Str("CANCELLED")}}
    \cup {PollBody(Str("FAILED"), Absent, Absent, e) : e \in {Absent, Str("quota")}}
    \cup {PollBody(Str("COMPLETED"), a, c, Absent) :
            a \in {Absent, [t |-> "list", items |-> <<>>]}, c \in ContentValues}
    \cup {PollBody(Str("COMPLETED"), [t |-> "list", items |-> a], Absent, Absent) :
            a \in AttachmentLists}

\* JSON bodies of a 200 answer to the query-result GET, with their str()
FetchBodies == {Null, [t |-> "obj", text |-> "{'row_count': 1}"]}

----------------------------------------------------------------------------
(* Error explanation *)

\* _truncate
Truncate(text) ==
    IF Len(text) <= max_len THEN text ELSE SubSeq(text, 1, max_len - 3) \o "..."

\* bool(response) of requests: Response.ok
ResponseOk(response) == response.status < 400

\* _request_ids (of the headers only x-request-id is modelled)
RequestIds(response) ==
    IF ~ResponseOk(response) THEN ""
    ELSE IF Truthy(response.rid) THEN "request_id=" \o response.rid.v
    ELSE ""

Hints(status_code) ==
    CASE status_code = 401 ->
           <<"Invalid or expired token. Ensure DATABRICKS_TOKEN is a valid Workspace PAT for this instance.",
             "If you recently rotated the token, restart the app to reload .env.">>
      [] status_code = 403 ->
           <<"Forbidden. Your PAT likely lacks permission on the Genie space or workspace.",
             "Verify: Genie Space -> Configure -> Permissions; ensure your user has at least 'Can Use'.">>
      [] status_code = 404 ->
           <<"Not found. Check GENIE_SPACE_ID and DATABRICKS_INSTANCE host are correct (no protocol in host).">>
      [] status_code = 429 ->
           <<"Rate limit. The tool retries with backoff. Consider waiting longer between polls.">>
      [] status_code >= 500 /\ status_code < 600 ->
           <<"Server error. Try again shortly.">>
      [] OTHER -> <<>>

\* _explain_http_error
ExplainHttpError(status_code, u, response) ==
    LET hints == Hints(status_code)
        base == "HTTP " \o StatusText(status_code) \o " calling " \o u
        details == "Response body: " \o Truncate(response.text)
        meta == RequestIds(response)
        hint_text == IF Len(hints) > 0 THEN " Hints: " \o JoinSpace(hints) ELSE ""
    IN  JoinBar(NonEmpty(<<base, details, meta>>)) \o hint_text

----------------------------------------------------------------------------
(* Construction *)

Idle == [k |-> "idle"]

Init ==
    /\ pc = "new"
    /\ env \in [DATABRICKS_INSTANCE : EnvValues, GENIE_SPACE_ID : SpaceValues,
                DATABRICKS_TOKEN : TokenValues]
    /\ self_inst = Null /\ self_space = Null /\ self_token = Null
    /\ args = NoArgs
    /\ callee = "" /\ url = "" /\ retry_count = 0 /\ answers = <<>>
    /\ sleeps = <<>> /\ ret = Idle
    /\ now = 0 /\ start_time = 0 /\ polls = 0
    /\ message_id = Null /\ current_conversation_id = Null
    /\ current_db_instance = ""
    /\ output_parts = <<>>
    /\ genie_response_text = "" /\ generated_sql = ""
    /\ attachment_id_for_results = Null /\ poll_data = Null
    /\ results_url = "" /\ query_results_str = ""
    /\ outcome = "idle" /\ result = ""

\* Construct as it would be without the test of GENIE_SPACE_ID (lines 47-48)
ConstructWithoutSpaceCheck ==
    /\ pc = "new"
    /\ self_inst' = env.DATABRICKS_INSTANCE
    /\ self_space' = env.GENIE_SPACE_ID
    /\ self_token' = env.DATABRICKS_TOKEN
    /\ IF ~Truthy(env.DATABRICKS_TOKEN) \/ ~Truthy(env.DATABRICKS_INSTANCE)
       THEN pc' = "config_error"
       ELSE pc' = "ready"
    /\ UNCHANGED <<env, args, now, start_time, polls, output_parts,
                   callvars, scanvars, idvars, endvars>>

\* __init__: reads the three environment values and raises ValueError when
\* one of them is missing or empty
Construct ==
    /\ pc = "new"
    /\ self_inst' = env.DATABRICKS_INSTANCE
    /\ self_space' = env.GENIE_SPACE_ID
    /\ self_token' = env.DATABRICKS_TOKEN
    /\ IF ~Truthy(env.DATABRICKS_TOKEN) \/ ~Truthy(env.DATABRICKS_INSTANCE)
          \/ ~Truthy(env.GENIE_SPACE_ID)
       THEN pc' = "config_error"
       ELSE pc' = "ready"
    /\ UNCHANGED <<env, args, now, start_time, polls, output_parts,
                   callvars, scanvars, idvars, endvars>>

----------------------------------------------------------------------------
(* _rate_limited_request *)

\* a call of the helper begins: retry_count = 0
BeginCall(who, u) ==
    /\ pc' = "call"
    /\ callee' = who
    /\ url' = u
    /\ retry_count' = 0
    /\ answers' = <<>>
    /\ sleeps' = <<>>
    /\ ret' = Idle

\* the helper ends with r and control is back in _run
EndCall(r) ==
    /\ pc' = callee \o "_ret"
    /\ ret' = r

InCall == pc = "call" /\ retry_count < max_retries

\* requests.request was called and answered with status
Answered(status) == answers' = Append(answers, status)

BodiesFor(who) ==
    CASE who = "submit" -> SubmitBodies
      [] who = "poll" -> PollBodies
      [] OTHER -> FetchBodies

\* wait_time of the 429 branch
WaitTime(count) == backoff_factor ^ count

\* the attempt is answered 200 with a JSON body: return response.json()
Http200 ==
    /\ InCall
    /\ Answered(200)
    /\ \E body \in BodiesFor(callee) : EndCall([k |-> "data", body |-> body])
    /\ UNCHANGED <<callee, url, retry_count, sleeps, now>>
    /\ UNCHANGED <<args, start_time, polls, output_parts, cfgvars, scanvars,
                   idvars, endvars>>

\* Http429 as it would be if the last 429 of the budget were raised to the
\* caller like the other error statuses
Http429Raised ==
    /\ InCall
    /\ Answered(429)
    /\ retry_count' = retry_count + 1
    /\ sleeps' = Append(sleeps, WaitTime(retry_count + 1))
    /\ now' = now + WaitTime(retry_count + 1)
    /\ IF retry_count + 1 < max_retries
       THEN UNCHANGED <<pc, ret>>
       ELSE EndCall([k |-> "http", response |-> Response429,
                     text |-> ExplainHttpError(429, url, Response429)])
    /\ UNCHANGED <<callee, url>>
    /\ UNCHANGED <<args, start_time, polls, output_parts, cfgvars, scanvars,
                   idvars, endvars>>

\* the attempt is answered 429: count it, sleep, and test the loop condition
Http429 ==
    /\ InCall
    /\ Answered(429)
    /\ retry_count' = retry_count + 1
    /\ sleeps' = Append(sleeps, WaitTime(retry_count + 1))
    /\ now' = now + WaitTime(retry_count + 1)
    /\ IF retry_count + 1 < max_retries
       THEN UNCHANGED <<pc, ret>>
       ELSE EndCall([k |-> "none"])
    /\ UNCHANGED <<callee, url>>
    /\ UNCHANGED <<args, start_time, polls, output_parts, cfgvars, scanvars,
                   idvars, endvars>>

\* HttpError as it would be if every error status were retried like a 429
HttpErrorRetried ==
    /\ InCall
    /\ \E response \in ErrorResponses : Answered(response.status)
    /\ retry_count' = retry_count + 1
    /\ sleeps' = Append(sleeps, WaitTime(retry_count + 1))
    /\ now' = now + WaitTime(retry_count + 1)
    /\ IF retry_count + 1 < max_retries
       THEN UNCHANGED <<pc, ret>>
       ELSE EndCall([k |-> "none"])
    /\ UNCHANGED <<callee, url>>
    /\ UNCHANGED <<args, start_time, polls, output_parts, cfgvars, scanvars,
                   idvars, endvars>>

\* the attempt is answered with another status: HTTPError with the explanation
HttpError ==
    /\ InCall
    /\ \E response \in ErrorResponses :
          /\ Answered(response.status)
          /\ EndCall([k |-> "http", response |-> response,
                   text |-> ExplainHttpError(response.status, url, response)])
    /\ UNCHANGED <<callee, url, retry_count, sleeps, now>>
    /\ UNCHANGED <<args, start_time, polls, output_parts, cfgvars, scanvars,
                   idvars, endvars>>

\* the attempt fails without a response (connection error, timeout): re-raised
NetworkError ==
    /\ InCall
    /\ Answered(0)
    /\ EndCall([k |-> "reqexc", text |-> "Connection refused"])
    /\ UNCHANGED <<callee, url, retry_count, sleeps, now>>
    /\ UNCHANGED <<args, start_time, polls, output_parts, cfgvars, scanvars,
                   idvars, endvars>>

\* the attempt is answered 200 with a body that is no JSON: response.json()
\* raises requests' JSONDecodeError (a RequestException without response) or,
\* with requests before 2.27, a plain ValueError; the source pins no version
JsonError ==
    /\ InCall
    /\ Answered(200)
    /\ \E k \in {"reqexc", "other"} :
          EndCall([k |-> k, text |-> "Expecting value: line 1 column 1 (char 0)"])
    /\ UNCHANGED <<callee, url, retry_count, sleeps, now>>
    /\ UNCHANGED <<args, start_time, polls, output_parts, cfgvars, scanvars,
                   idvars, endvars>>

----------------------------------------------------------------------------
(* _run: submit *)

NotAvailable == "Not available"
NoSqlString == "No SQL string in query object."

\* lines 138-140: strip the protocol and trailing slashes from the host
NormalizeInstance(inst) ==
    RStripSlash(IF Contains(inst, "https://") THEN SplitSecond(inst, "https://") ELSE inst)

SpaceUrl(inst, space) == "https://" \o inst \o "/api/2.0/genie/spaces/" \o space

FollowUpUrl(inst, space, cid) ==
    SpaceUrl(inst, space) \o "/conversations/" \o cid \o "/messages"

StartConversationUrl(inst, space) == SpaceUrl(inst, space) \o "/start-conversation"

PollUrl(inst, space, cid, mid) ==
    SpaceUrl(inst, space) \o "/conversations/" \o cid \o "/messages/" \o mid

ResultsUrl(inst, space, cid, mid, aid) ==
    PollUrl(inst, space, cid, mid) \o "/attachments/" \o aid \o "/query-result"

\* RunBegin as it would be if lines 138-140 normalised the host in place, in
\* self._databricks_instance
RunBeginInPlace ==
    /\ pc \in {"ready", "done"}
    /\ \E a \in RunArgs :
        LET inst == NormalizeInstance(self_inst.v) IN
        /\ args' = a
        /\ self_inst' = Str(inst)
        /\ current_db_instance' = inst
        /\ message_id' = Null
        /\ current_conversation_id' = a.conversation_id
        /\ output_parts' = <<>>
        /\ IF Truthy(a.conversation_id)
           THEN BeginCall("submit", FollowUpUrl(inst, self_space.v, a.conversation_id.v))
           ELSE BeginCall("submit", StartConversationUrl(inst, self_space.v))
    /\ outcome' = "running"
    /\ polls' = 0
    /\ now' = 0 /\ start_time' = 0
    /\ genie_response_text' = "" /\ generated_sql' = ""
    /\ attachment_id_for_results' = Null /\ poll_data' = Null
    /\ results_url' = "" /\ query_results_str' = "" /\ result' = ""
    /\ UNCHANGED <<env, self_space, self_token>>

\* lines 135-151 and 168-169: a call of _run begins, on a client that was
\* constructed and is running no call, and posts the query.  The locals of
\* the call are new: what an earlier call left in them is gone
RunBegin ==
    /\ pc \in {"ready", "done"}
    /\ \E a \in RunArgs :
        LET inst == NormalizeInstance(self_inst.v) IN
        /\ args' = a
        /\ current_db_instance' = inst
        /\ message_id' = Null
        /\ current_conversation_id' = a.conversation_id
        /\ output_parts' = <<>>
        /\ IF Truthy(a.conversation_id)
           THEN BeginCall("submit", FollowUpUrl(inst, self_space.v, a.conversation_id.v))
           ELSE BeginCall("submit", StartConversationUrl(inst, self_space.v))
    /\ outcome' = "running"
    /\ polls' = 0
    /\ now' = 0 /\ start_time' = 0
    /\ genie_response_text' = "" /\ generated_sql' = ""
    /\ attachment_id_for_results' = Null /\ poll_data' = Null
    /\ results_url' = "" /\ query_results_str' = "" /\ result' = ""
    /\ UNCHANGED cfgvars

\* repr() of a value of a submit response
ReprValue(v) ==
    CASE v.t = "null" -> "None"
      [] v.t = "str" -> "'" \o v.v \o "'"
      [] v.t = "obj" -> IF v.id = Absent THEN "{}"
                        ELSE "{'id': " \o (IF v.id.t = "str" THEN "'" \o v.id.v \o "'" ELSE "None") \o "}"
      [] OTHER -> ""

ReprField(name, v) == IF v = Absent THEN "" ELSE "'" \o name \o "': " \o ReprValue(v)

RECURSIVE JoinComma(_)
JoinComma(parts) ==
    IF Len(parts) = 0 THEN ""
    ELSE IF Len(parts) = 1 THEN parts[1]
    ELSE parts[1] \o ", " \o JoinComma(Tail(parts))

\* str(response_data) of a submit response that is a dict
ReprSubmit(body) ==
    "{" \o JoinComma(NonEmpty(<<ReprField("id", body.id),
                                ReprField("conversation", body.conversation),
                                ReprField("message", body.message)>>)) \o "}"

\* bool(response_data): None and {} are falsy
SubmitTruthy(body) ==
    CASE body.t = "null" -> FALSE
      [] body.t = "obj" -> body.id # Absent \/ body.conversation # Absent
                           \/ body.message # Absent
      [] OTHER -> TRUE

\* x.get("id") where x is response_data.get(key, {}): an AttributeError
\* unless x is a dict
HasGet(x) == x = Absent \/ x.t = "obj"
NestedId(x) == IF x = Absent THEN Null ELSE Get(x.id)

Returns(text) == [end |-> "return", text |-> text]
Raises(text) == [end |-> "raise", text |-> text]
Proceeds(cid, mid, note) == [end |-> "go", cid |-> cid, mid |-> mid, note |-> note]

NoGet(x) ==
    Raises(IF x.t = "null" THEN "'NoneType' object has no attribute 'get'"
           ELSE IF x.t = "list" THEN "'list' object has no attribute 'get'"
           ELSE "'str' object has no attribute 'get'")

\* what the except clause of a submit branch makes of a RequestException
SubmitException(prefix, r, u) ==
    IF r.k = "http"
    THEN Returns(prefix \o ExplainHttpError(r.response.status, u, r.response))
    ELSE Returns(prefix \o r.text)

\* lines 152-166: the follow-up branch, given how the request ended
SubmitFollowUp(r, cid, u) ==
    CASE r.k = "none" -> Returns("Error: Failed to get response when sending follow-up.")
      [] r.k = "http" \/ r.k = "reqexc" -> SubmitException("Error sending follow-up: ", r, u)
      [] r.k = "other" -> Raises(r.text)
      [] OTHER ->
           LET body == r.body IN
           IF ~SubmitTruthy(body)
           THEN Returns("Error: Failed to get response when sending follow-up.")
           ELSE IF body.t # "obj" THEN NoGet(body)
           ELSE IF Truthy(Get(body.id))
           THEN Proceeds(cid, Get(body.id),
                         "Follow-up sent. New Message ID: " \o PyStr(Get(body.id)))
           ELSE IF ~HasGet(body.message) THEN NoGet(body.message)
           ELSE IF ~Truthy(NestedId(body.message))
           THEN Returns("Error: Could not get message_id from follow-up. Response: "
                        \o ReprSubmit(body))
           ELSE Proceeds(cid, NestedId(body.message),
                         "Follow-up sent. New Message ID: " \o PyStr(NestedId(body.message)))

\* lines 170-183: the start-conversation branch, given how the request ended
SubmitNew(r, u) ==
    CASE r.k = "none" -> Returns("Error: Failed to get response when starting conversation.")
      [] r.k = "http" \/ r.k = "reqexc" -> SubmitException("Error starting conversation: ", r, u)
      [] r.k = "other" -> Raises(r.text)
      [] OTHER ->
           LET body == r.body IN
           IF ~SubmitTruthy(body)
           THEN Returns("Error: Failed to get response when starting conversation.")
           ELSE IF body.t # "obj" THEN NoGet(body)
           ELSE IF ~HasGet(body.conversation) THEN NoGet(body.conversation)
           ELSE IF ~HasGet(body.message) THEN NoGet(body.message)
           ELSE IF ~Truthy(NestedId(body.conversation)) \/ ~Truthy(NestedId(body.message))
           THEN Returns("Error: Missing conversation_id or message_id. Response: "
                        \o ReprSubmit(body))
           ELSE Proceeds(NestedId(body.conversation), NestedId(body.message),
                         "New conversation. ID: " \o PyStr(NestedId(body.conversation))
                         \o ", Message ID: " \o PyStr(NestedId(body.message)))

\* lines 149-186 after the request: which branch ran and the guard of line 185
SubmitOutcome(r, a, u) ==
    LET o == IF Truthy(a.conversation_id)
             THEN SubmitFollowUp(r, a.conversation_id, u)
             ELSE SubmitNew(r, u)
    IN  IF o.end = "go" /\ (~Truthy(o.mid) \/ ~Truthy(o.cid))
        THEN Returns("Error: Failed to obtain message or conversation ID.")
        ELSE o

\* _run returns text
Return(text) ==
    /\ pc' = "done"
    /\ outcome' = "returned"
    /\ result' = text

\* an exception leaves _run
Raise ==
    /\ pc' = "done"
    /\ outcome' = "raised"
    /\ result' = ""

\* the submit request has ended: lines 153-192
SubmitReturn ==
    /\ pc = "submit_ret"
    /\ LET o == SubmitOutcome(ret, args, url) IN
       CASE o.end = "return" ->
              /\ Return(o.text)
              /\ UNCHANGED <<message_id, current_conversation_id, output_parts,
                             now, start_time, genie_response_text, generated_sql,
                             attachment_id_for_results>>
         [] o.end = "raise" ->
              /\ Raise
              /\ UNCHANGED <<message_id, current_conversation_id, output_parts,
                             now, start_time, genie_response_text, generated_sql,
                             attachment_id_for_results>>
         [] OTHER ->
              /\ message_id' = o.mid
              /\ current_conversation_id' = o.cid
              /\ output_parts' = Append(output_parts, o.note)
              /\ now' = 0
              /\ start_time' = now'
              /\ genie_response_text' = NotAvailable
              /\ generated_sql' = NotAvailable
              /\ attachment_id_for_results' = Null
              /\ pc' = "poll_top"
              /\ UNCHANGED <<outcome, result>>
    /\ ret' = Idle
    /\ UNCHANGED <<args, polls, cfgvars, callee, url, retry_count,
                   answers, sleeps, current_db_instance, poll_data,
                   results_url, query_results_str>>

----------------------------------------------------------------------------
(* _run: attachment scan, result fetch decision and report *)

\* generated_sql not in ["Not available", "No SQL string in query object."]
RealSql(sql) == sql # NotAvailable /\ sql # NoSqlString

\* lines 216-221: text and SQL of the attachment's query object
QueryText(a) ==
    IF a.query # Absent /\ a.query.t = "obj" /\ a.query.description # Absent
    THEN a.query.description.v ELSE NotAvailable

QuerySql(a) ==
    IF a.query # Absent /\ a.query.t = "obj" /\ a.query.query # Absent
    THEN a.query.query.v ELSE NotAvailable

\* lines 223-230: the text field, used when the query object gave no description
AttachmentText(a) ==
    IF QueryText(a) = NotAvailable /\ a.text # Absent
    THEN CASE a.text.t = "obj" /\ a.text.content # Absent -> a.text.content.v
           [] a.text.t = "str" -> a.text.v
           [] a.text.t = "null" -> "Text format not recognized."
           [] OTHER -> "{}"
    ELSE QueryText(a)

ScanStart(text, sql, att) ==
    [text |-> text, sql |-> sql, att |-> att, stop |-> FALSE, failed |-> FALSE]

\* ScanAttachment as it would be if the break of line 242 tested the text only
ScanAttachmentStopsOnText(s, a, fetch) ==
    IF a.kind = "bad" THEN [s EXCEPT !.failed = TRUE]
    ELSE
      LET text == IF AttachmentText(a) # NotAvailable THEN AttachmentText(a) ELSE s.text
          sql == IF QuerySql(a) # NotAvailable THEN QuerySql(a) ELSE s.sql
          att == IF a.attachment_id # Absent /\ fetch /\ RealSql(sql)
                 THEN Get(a.attachment_id) ELSE s.att
      IN  [text |-> text, sql |-> sql, att |-> att,
           stop |-> (text # NotAvailable), failed |-> FALSE]

\* ScanAttachment as it would be if lines 232-235 assigned the text and the
\* SQL of every attachment, found or not
ScanAttachmentOverwrites(s, a, fetch) ==
    IF a.kind = "bad" THEN [s EXCEPT !.failed = TRUE]
    ELSE
      LET text == AttachmentText(a)
          sql == QuerySql(a)
          att == IF a.attachment_id # Absent /\ fetch /\ RealSql(sql)
                 THEN Get(a.attachment_id) ELSE s.att
      IN  [text |-> text, sql |-> sql, att |-> att,
           stop |-> (text # NotAvailable /\ RealSql(sql)), failed |-> FALSE]

\* lines 213-244: one iteration of the scan; stop is the break of line 244,
\* failed the TypeError of testing a key in an element that is no container
ScanAttachment(s, a, fetch) ==
    IF a.kind = "bad" THEN [s EXCEPT !.failed = TRUE]
    ELSE
      LET text == IF AttachmentText(a) # NotAvailable THEN AttachmentText(a) ELSE s.text
          sql == IF QuerySql(a) # NotAvailable THEN QuerySql(a) ELSE s.sql
          att == IF a.attachment_id # Absent /\ fetch /\ RealSql(sql)
                 THEN Get(a.attachment_id) ELSE s.att
      IN  [text |-> text, sql |-> sql, att |-> att,
           stop |-> (text # NotAvailable /\ RealSql(sql)), failed |-> FALSE]

\* ScanAttachments as it would be without the break of lines 242-244
RECURSIVE ScanAttachmentsToTheEnd(_, _, _)
ScanAttachmentsToTheEnd(s, items, fetch) ==
    IF Len(items) = 0 \/ s.failed THEN s
    ELSE ScanAttachmentsToTheEnd(ScanAttachment(s, Head(items), fetch), Tail(items), fetch)

\* line 212: the for loop
RECURSIVE ScanAttachments(_, _, _)
ScanAttachments(s, items, fetch) ==
    IF Len(items) = 0 \/ s.stop \/ s.failed THEN s
    ELSE ScanAttachments(ScanAttachment(s, Head(items), fetch), Tail(items), fetch)

\* line 211
HasAttachments(body) ==
    body.attachments # Absent /\ body.attachments.t = "list"
    /\ Len(body.attachments.items) > 0

\* lines 246-254: no attachments, fall back to the message content
ContentFallback(body, query) ==
    LET raw == Get(body.content) IN
    IF raw.t = "str" /\ Lower(raw.v) # Lower(query)
    THEN [text |-> raw.v, note |-> "No attachments; used message content for response."]
    ELSE IF raw.t = "obj" /\ raw.content # Absent
    THEN [text |-> raw.content.v, note |-> "No attachments; used message content for response."]
    ELSE [text |-> NotAvailable,
          note |-> "No attachments or suitable main content for response."]

\* line 277: the query-result GET is made
WantsFetch(fetch, att, sql) == fetch /\ Truthy(att) /\ RealSql(sql)

\* NotFetched as it would be with the two elif branches in the other order
NotFetchedIdFirst(fetch, att, sql) ==
    IF fetch /\ ~Truthy(att) THEN "Not fetched; no attachment_id for results."
    ELSE IF fetch /\ ~RealSql(sql) THEN "Not fetched; no SQL query was generated."
    ELSE "Not fetched."

\* lines 276 and 294-298: query_results_str when no GET is made
NotFetched(fetch, att, sql) ==
    IF fetch /\ ~RealSql(sql) THEN "Not fetched; no SQL query was generated."
    ELSE IF fetch /\ ~Truthy(att) THEN "Not fetched; no attachment_id for results."
    ELSE "Not fetched."

\* line 309
HasMarker(parts) ==
    \E i \in 1..Len(parts) : Contains(parts[i], "Error:") \/ Contains(parts[i], "Warning:")

ReportLines(cid, mid, text, sql, qrs) ==
    <<"Conversation ID: " \o PyStr(cid),
      "Message ID: " \o PyStr(mid),
      "Genie's Textual Response: " \o text,
      "Generated SQL Query: " \o sql,
      "Query Results: " \o qrs>>

\* lines 300-314
Report(parts, cid, mid, text, sql, qrs) ==
    IF HasMarker(parts) /\ (text # NotAvailable \/ sql # NotAvailable)
    THEN JoinLines(parts \o <<"---">> \o ReportLines(cid, mid, text, sql, qrs))
    ELSE JoinLines(ReportLines(cid, mid, text, sql, qrs))

----------------------------------------------------------------------------
(* _run: the poll loop *)

\* line 195; start_time and now are whole seconds here, and when the whole
\* seconds are equal the comparison of the real clock can go either way
PollTimeout ==
    /\ pc = "poll_top"
    /\ now - start_time >= args.polling_timeout_seconds
    /\ output_parts' = Append(output_parts, "Error: Polling timed out.")
    /\ Return(JoinLines(output_parts'))
    /\ UNCHANGED <<args, now, start_time, polls, cfgvars, callvars,
                   scanvars, idvars, results_url, query_results_str>>

\* line 200: the next poll request begins
PollBegin ==
    /\ pc = "poll_top"
    /\ now - start_time <= args.polling_timeout_seconds
    /\ polls' = polls + 1
    /\ BeginCall("poll", PollUrl(current_db_instance, self_space.v,
                                 current_conversation_id.v, message_id.v))
    /\ UNCHANGED <<args, now, start_time, output_parts, cfgvars,
                   scanvars, idvars, endvars>>

\* SleepAndContinue as it would be if the branch ended the run with the notes
SleepAndReturn(parts) ==
    /\ output_parts' = parts
    /\ pc' = "done"
    /\ outcome' = "returned"
    /\ result' = JoinLines(parts)
    /\ UNCHANGED <<now, scanvars, results_url, query_results_str, callee, url>>

\* SleepAndContinue as it would be if the branch slept the interval twice
SleepTwiceAndContinue(parts) ==
    /\ output_parts' = parts
    /\ now' = now + 2 * args.polling_interval_seconds
    /\ pc' = "poll_top"
    /\ UNCHANGED <<scanvars, endvars, callee, url>>

\* time.sleep(polling_interval_seconds) and back to the top of the loop
SleepAndContinue(parts) ==
    /\ output_parts' = parts
    /\ now' = now + args.polling_interval_seconds
    /\ pc' = "poll_top"
    /\ UNCHANGED <<scanvars, endvars, callee, url>>

\* ReturnNotes as it would be if the branch slept and went on polling
NotesAndContinue(parts) ==
    /\ output_parts' = parts
    /\ now' = now + args.polling_interval_seconds
    /\ pc' = "poll_top"
    /\ UNCHANGED <<scanvars, endvars, callee, url>>

\* return "\n".join(output_parts)
ReturnNotes(parts) ==
    /\ output_parts' = parts
    /\ Return(JoinLines(parts))
    /\ UNCHANGED <<now, scanvars, results_url, query_results_str, callee, url>>

\* lines 207-255 and 276-314 for a COMPLETED response
Completed(body) ==
    LET parts == Append(output_parts, "Genie processing completed.")
        s == ScanAttachments(ScanStart(genie_response_text, generated_sql,
                                       attachment_id_for_results),
                             body.attachments.items, args.fetch_query_results)
        fb == ContentFallback(body, args.natural_language_query)
        text == IF HasAttachments(body) THEN s.text ELSE fb.text
        sql == IF HasAttachments(body) THEN s.sql ELSE generated_sql
        att == IF HasAttachments(body) THEN s.att ELSE attachment_id_for_results
        notes == IF HasAttachments(body) THEN parts ELSE Append(parts, fb.note)
    IN  IF HasAttachments(body) /\ s.failed
        THEN /\ output_parts' = Append(parts,
                   "Unexpected error during polling: argument of type 'NoneType' is not iterable")
             /\ Return(JoinLines(output_parts'))
             /\ poll_data' = body
             /\ UNCHANGED <<now, genie_response_text, generated_sql,
                            attachment_id_for_results, results_url,
                            query_results_str, callee, url>>
        ELSE /\ output_parts' = notes
             /\ poll_data' = body
             /\ genie_response_text' = text
             /\ generated_sql' = sql
             /\ attachment_id_for_results' = att
             /\ UNCHANGED now
             /\ IF WantsFetch(args.fetch_query_results, att, sql)
                THEN /\ results_url' = ResultsUrl(current_db_instance, self_space.v,
                                                  current_conversation_id.v,
                                                  message_id.v, att.v)
                     /\ pc' = "call" /\ callee' = "fetch" /\ url' = results_url'
                     /\ UNCHANGED <<query_results_str, outcome, result>>
                ELSE /\ query_results_str' = NotFetched(args.fetch_query_results, att, sql)
                     /\ Return(Report(notes, current_conversation_id, message_id,
                                      text, sql, query_results_str'))
                     /\ UNCHANGED <<results_url, callee, url>>

PollStatus(body) == Get(body.status)

\* the poll request has ended: lines 201-274
PollReturn ==
    /\ pc = "poll_ret"
    /\ CASE ret.k = "none" ->
              SleepAndContinue(Append(output_parts, "Error: Failed to get polling response."))
         [] ret.k = "http" ->
              SleepAndContinue(Append(output_parts, "Error during polling: "
                  \o ExplainHttpError(ret.response.status, url, ret.response)))
         [] ret.k = "reqexc" ->
              SleepAndContinue(Append(output_parts, "Error during polling: " \o ret.text))
         [] ret.k = "other" ->
              ReturnNotes(Append(output_parts, "Unexpected error during polling: " \o ret.text))
         [] OTHER ->
              LET body == ret.body IN
              CASE body.t = "null" ->
                     SleepAndContinue(Append(output_parts, "Error: Failed to get polling response."))
                [] body.t = "list" ->
                     ReturnNotes(Append(output_parts,
                         "Unexpected error during polling: 'list' object has no attribute 'get'"))
                [] PollStatus(body) = Str("COMPLETED") -> Completed(body)
                [] PollStatus(body) \in {Str("FAILED"), Str("CANCELLED")} ->
                     ReturnNotes(Append(output_parts,
                         "Error: Genie processing " \o PollStatus(body).v \o ". Details: "
                         \o PyStr(GetOr(body.error, Str("Unknown error")))))
                [] PollStatus(body) = Str("IN_PROGRESS") ->
                     SleepAndContinue(output_parts)
                [] OTHER ->
                     SleepAndContinue(Append(output_parts,
                         "Info: Genie API status update - '" \o PyStr(PollStatus(body)) \o "'."))
    /\ IF pc' = "call"
       THEN /\ retry_count' = 0 /\ answers' = <<>> /\ sleeps' = <<>> /\ ret' = Idle
       ELSE /\ ret' = Idle /\ UNCHANGED <<retry_count, answers, sleeps>>
    /\ UNCHANGED <<args, start_time, polls, cfgvars, idvars>>

\* the query-result request has ended: lines 282-314
FetchResult(r, u) ==
    CASE r.k = "none" -> "Error: Failed to get query results."
      [] r.k = "http" ->
           "Error fetching results: " \o ExplainHttpError(r.response.status, u, r.response)
      [] r.k = "reqexc" -> "Error fetching results: " \o r.text
      [] r.k = "other" -> "Error processing results: " \o r.text
      [] OTHER -> IF r.body.t = "null" THEN "Error: Failed to get query results."
                  ELSE "Successfully fetched: " \o r.body.text

FetchReturn ==
    /\ pc = "fetch_ret"
    /\ query_results_str' = FetchResult(ret, url)
    /\ Return(Report(output_parts, current_conversation_id, message_id,
                     genie_response_text, generated_sql, query_results_str'))
    /\ ret' = Idle
    /\ UNCHANGED <<args, now, start_time, polls, output_parts, cfgvars,
                   callee, url, retry_count, answers, sleeps, scanvars, idvars,
                   results_url>>

----------------------------------------------------------------------------
Next ==
    \/ Construct
    \/ RunBegin
    \/ Http200
    \/ Http429
    \/ HttpError
    \/ NetworkError
    \/ JsonError
    \/ SubmitReturn
    \/ PollTimeout
    \/ PollBegin
    \/ PollReturn
    \/ FetchReturn

Spec == Init /\ [][Next]_vars

\* an attempt of the running _rate_limited_request ends: requests.request is
\* called with timeout=10, so that it returns a response or raises, and
\* time.sleep returns
HelperStep == Http200 \/ Http429 \/ HttpError \/ NetworkError \/ JsonError

\* Spec with every attempt of the helper ending
LiveSpec == Spec /\ WF_vars(HelperStep)

----------------------------------------------------------------------------
(* Properties *)

Last(seq) == seq[Len(seq)]

NewConversation == ~Truthy(args.conversation_id)

\* the report was rendered (lines 300-314 ran)
Reported == outcome = "returned" /\ query_results_str # ""

\* the attachments of the COMPLETED response, <<>> when it has none
Items ==
    IF poll_data.t = "obj" /\ HasAttachments(poll_data)
    THEN poll_data.attachments.items ELSE <<>>

CarriesSql(a) == QuerySql(a) # NotAvailable
CarriesRealSql(a) == RealSql(QuerySql(a))

TextLine(text) == "\nGenie's Textual Response: " \o text \o "\nGenerated SQL Query: "
SqlLine(sql) == "\nGenerated SQL Query: " \o sql \o "\nQuery Results: "
ResultsLine(qrs) == "\nQuery Results: " \o qrs

\* C1, as claimed: a call of the helper that was answered 429 three times in
\* a row, and slept 2 s, 4 s and 8 s, has not given up: it is still in its
\* loop, about to make the fourth attempt, whose 200 answer it will return.
C1_FourthAttemptAfterThree429 ==
    (answers = <<429, 429, 429>> /\ sleeps = <<2, 4, 8>>) => pc = "call"

\* C2, as claimed: a run whose polls never report a terminal status ends by
\* the polling timeout, and it has then returned no later than
\* polling_timeout_seconds plus one polling interval after polling began.
C2_TimeoutWithinOneInterval ==
    (outcome = "returned" /\ Contains(result, "Error: Polling timed out."))
        => now - start_time
              <= args.polling_timeout_seconds + args.polling_interval_seconds

HasBothIds(body) ==
    /\ body.t = "obj"
    /\ body.conversation.t = "obj" /\ Truthy(Get(body.conversation.id))
    /\ body.message.t = "obj" /\ Truthy(Get(body.message.id))

\* C3, as claimed: with no conversation id supplied, a start-conversation
\* response that holds both ids takes the run into the poll loop, and one
\* that lacks either makes the run return a string that contains "Error" and
\* names the missing conversation/message id, with no poll begun.
C3_StartResponseDecidesPolling ==
    [][(pc = "submit_ret" /\ NewConversation /\ ret.k = "data")
         => IF HasBothIds(ret.body)
            THEN pc' = "poll_top"
            ELSE /\ outcome' = "returned"
                 /\ Contains(result', "Error")
                 /\ Contains(result', "conversation_id or message_id")
                 /\ polls' = 0]_vars

\* C4, as claimed: no exception leaves _run, whatever the submit, poll and
\* result-fetch requests bring back.
C4_NeverRaises == outcome # "raised"

\* C5, as claimed: the attachment id of the query-result GET is the id of an
\* attachment that itself carries a real SQL string.
C5_FetchIdFromAttachmentWithSql ==
    callee = "fetch"
        => \A i \in 1..Len(Items) :
              Items[i].attachment_id = attachment_id_for_results
                  => CarriesRealSql(Items[i])

\* C6: the query-result GET is made only when results were requested, an
\* attachment id was captured and a real SQL string was obtained; when results
\* were requested and no attachment of the completed response carries a real
\* SQL string, no GET is made and the Query Results field says that no SQL
\* query was generated; when results were requested and real SQL was obtained
\* but no attachment id, the field says that the attachment id is missing.
C6_FetchOnlyWithSqlAndId ==
    /\ callee = "fetch"
          => /\ args.fetch_query_results
             /\ Truthy(attachment_id_for_results)
             /\ RealSql(generated_sql)
             /\ \E i \in 1..Len(Items) : CarriesRealSql(Items[i])
    /\ (Reported /\ args.fetch_query_results
        /\ \A i \in 1..Len(Items) : ~CarriesRealSql(Items[i]))
          => /\ callee # "fetch"
             /\ results_url = ""
             /\ Contains(result, ResultsLine("Not fetched; no SQL query was generated."))
    /\ (Reported /\ args.fetch_query_results /\ RealSql(generated_sql)
        /\ ~Truthy(attachment_id_for_results))
          => /\ callee # "fetch"
             /\ Contains(result, ResultsLine("Not fetched; no attachment_id for results."))

\* C6 witness: results were requested, the completed response had attachments
\* and none with real SQL, and the report says that no SQL was generated.
C6_Witness ==
    /\ Reported /\ args.fetch_query_results
    /\ Len(Items) > 0
    /\ \A i \in 1..Len(Items) : ~CarriesRealSql(Items[i])
    /\ Contains(result, ResultsLine("Not fetched; no SQL query was generated."))

\* C7: in a report made from attachments, when the first attachment carries
\* no SQL and exactly one later attachment does, the Generated SQL Query is
\* that attachment's SQL; and whenever some attachment carries SQL, the
\* Generated SQL Query is the SQL of one of the attachments and not the
\* "Not available" placeholder.
C7_ReportSqlFromAttachment ==
    (Reported /\ Len(Items) > 0)
        => /\ \A j \in 2..Len(Items) :
                (/\ ~CarriesSql(Items[1])
                 /\ CarriesSql(Items[j])
                 /\ \A k \in 1..Len(Items) : k # j => ~CarriesSql(Items[k]))
                    => Contains(result, SqlLine(QuerySql(Items[j])))
           /\ (\E i \in 1..Len(Items) : CarriesSql(Items[i]))
                => /\ \E j \in 1..Len(Items) :
                         /\ CarriesSql(Items[j])
                         /\ Contains(result, SqlLine(QuerySql(Items[j])))
                   /\ ~Contains(result, SqlLine(NotAvailable))

\* C7 witness: a report of two attachments, the first without SQL, whose
\* Generated SQL Query is the SQL of the second.
C7_Witness ==
    /\ Reported /\ Len(Items) = 2
    /\ ~CarriesSql(Items[1]) /\ CarriesSql(Items[2])
    /\ Contains(result, SqlLine(QuerySql(Items[2])))

\* the content of the message when it has a shape the fallback accepts: a
\* string, or an object with a content field
AcceptedContent(body) ==
    IF body.content.t = "str" THEN <<body.content.v>>
    ELSE IF body.content.t = "obj" /\ body.content.content # Absent
    THEN <<body.content.content.v>>
    ELSE <<>>

\* C8, as claimed: in a report of a COMPLETED response without attachments,
\* content of either accepted shape that equals the query case-insensitively
\* leaves the response text "Not available", and content that differs is the
\* response text.
C8_QueryNeverEchoed ==
    (Reported /\ poll_data.t = "obj" /\ ~HasAttachments(poll_data))
        => \A i \in 1..Len(AcceptedContent(poll_data)) :
              LET c == AcceptedContent(poll_data)[i] IN
              IF Lower(c) = Lower(args.natural_language_query)
              THEN Contains(result, TextLine(NotAvailable))
              ELSE Contains(result, TextLine(c))

\* a note that reports an error or a warning
ReportsProblem(note) == Contains(note, "Error") \/ Contains(note, "Warning")

\* C9, as claimed: a report made after a note that reports an error or a
\* warning, with a response text or SQL obtained, is all the notes, a divider
\* line and the structured report.
C9_NotesKeptOnPartialSuccess ==
    (/\ Reported
     /\ \E i \in 1..Len(output_parts) : ReportsProblem(output_parts[i])
     /\ (genie_response_text # NotAvailable \/ generated_sql # NotAvailable))
        => result = JoinLines(output_parts \o <<"---">>
                              \o ReportLines(current_conversation_id, message_id,
                                             genie_response_text, generated_sql,
                                             query_results_str))

\* C10: an attempt answered with a status other than 200 and 429 ends the
\* call of the helper: no attempt and no sleep follow it (so that it is the
\* only attempt when it is the first answer), and the call fails with the
\* explanation of that status and url.  A 404 answer to the start-conversation
\* POST makes _run return a string with "HTTP 404", the url and the host/space
\* hint, and no poll is begun.
C10_ErrorStatusNotRetried ==
    /\ (Len(answers) > 0 /\ Last(answers) \notin {0, 200, 429})
          => /\ pc # "call"
             /\ Len(sleeps) = Len(answers) - 1
             /\ \A i \in 1..(Len(answers) - 1) : answers[i] = 429
             /\ ret.k \in {"http", "idle"}
             /\ ret.k = "http"
                   => Contains(ret.text, "HTTP " \o StatusText(Last(answers))
                                         \o " calling " \o url)
    /\ (pc = "done" /\ callee = "submit" /\ NewConversation
        /\ Len(answers) > 0 /\ Last(answers) = 404)
          => /\ outcome = "returned"
             /\ Contains(result, "HTTP 404")
             /\ Contains(result, StartConversationUrl(current_db_instance, self_space.v))
             /\ Contains(result, "Check GENIE_SPACE_ID and DATABRICKS_INSTANCE host are correct")
             /\ polls = 0

\* C10 witness: the start-conversation POST was answered 404 at once and _run
\* returned the explanation after that single attempt.
C10_Witness ==
    /\ pc = "done" /\ callee = "submit" /\ NewConversation
    /\ answers = <<404>> /\ sleeps = <<>>
    /\ Contains(result, "HTTP 404")

\* the top-level id of a follow-up response and the id under its message key
TopLevelId(body) == IF body.t = "obj" THEN Get(body.id) ELSE Null
MessageKeyId(body) ==
    IF body.t = "obj" /\ body.message.t = "obj" THEN Get(body.message.id) ELSE Null

\* what C11 claims of the step that follows a follow-up response
FollowUpIdRule ==
    (pc = "submit_ret" /\ ~NewConversation /\ ret.k = "data")
        => IF Truthy(TopLevelId(ret.body))
           THEN pc' = "poll_top" /\ message_id' = TopLevelId(ret.body)
           ELSE IF Truthy(MessageKeyId(ret.body))
           THEN pc' = "poll_top" /\ message_id' = MessageKeyId(ret.body)
           ELSE /\ outcome' = "returned"
                /\ Contains(result', "Error")
                /\ polls' = 0

\* C11, as claimed: after the response to a follow-up, the message id of the
\* polls is the top-level id of the response when it has one, else the id
\* under its message key (so that the same id in either place is extracted
\* alike), and a response with neither makes the run return an error string
\* with no poll begun.
C11_FollowUpMessageId == [][FollowUpIdRule]_vars

\* the part of C11 that the code keeps: the part above for the responses that
\* are dicts whose message value, when read, is a dict
C11_FollowUpMessageIdOfDicts ==
    [][(pc = "submit_ret" /\ ret.k = "data" /\ ret.body.t = "obj"
        /\ (Truthy(TopLevelId(ret.body)) \/ ret.body.message.t \in {"absent", "obj"}))
          => FollowUpIdRule]_vars


\* the three configuration values are present and non-empty in the environment
ConfigComplete ==
    /\ Truthy(env.DATABRICKS_INSTANCE)
    /\ Truthy(env.GENIE_SPACE_ID)
    /\ Truthy(env.DATABRICKS_TOKEN)

\* C12: construction ends in the configuration error exactly when one of the
\* three configuration values is missing or empty, and succeeds otherwise; a
\* client whose construction failed never runs a call, and every call that
\* runs or has run finds the three values of the client present and non-empty.
C12_ConstructionIffConfigured ==
    /\ pc = "config_error" => (~ConfigComplete /\ outcome = "idle")
    /\ pc \notin {"new", "config_error"} => ConfigComplete
    /\ outcome # "idle"
          => /\ Truthy(self_inst) /\ Truthy(self_space) /\ Truthy(self_token)
             /\ self_inst = env.DATABRICKS_INSTANCE
             /\ self_space = env.GENIE_SPACE_ID
             /\ self_token = env.DATABRICKS_TOKEN

\* C12 witness: construction failed for the space id alone.
C12_Witness ==
    /\ pc = "config_error"
    /\ Truthy(env.DATABRICKS_INSTANCE) /\ Truthy(env.DATABRICKS_TOKEN)
    /\ ~Truthy(env.GENIE_SPACE_ID)


\* how a poll operation ended, seen when control is back in the loop
PollEnded == pc = "poll_ret"
PollGaveStatus(label) ==
    PollEnded /\ ret.k = "data" /\ ret.body.t = "obj" /\ PollStatus(ret.body) = label
PollInProgress == PollGaveStatus(Str("IN_PROGRESS"))
PollUnrecognized ==
    /\ PollEnded /\ ret.k = "data" /\ ret.body.t = "obj"
    /\ PollStatus(ret.body) \notin {Str("COMPLETED"), Str("FAILED"), Str("CANCELLED"),
                                    Str("IN_PROGRESS")}
PollFetchError == PollEnded /\ ret.k \in {"http", "reqexc"}

\* the loop goes on: the run has not ended and sleeps the interval
LoopContinues ==
    /\ pc' = "poll_top"
    /\ outcome' = "running"
    /\ now' = now + args.polling_interval_seconds

\* C13: a poll that ends with IN_PROGRESS, with a status the code does not
\* know, or with an HTTP error status (other than 429) or a request error
\* without response does not end the run: the loop sleeps the interval and
\* is back at its top, where it polls again whenever the timeout has not
\* elapsed.  IN_PROGRESS leaves the notes as they are; an unknown status and a
\* fetch error each append one note.
C13_NonTerminalPollContinues ==
    /\ [][PollInProgress => (LoopContinues /\ output_parts' = output_parts)]_vars
    /\ [][PollUnrecognized
            => /\ LoopContinues
               /\ Len(output_parts') = Len(output_parts) + 1
               /\ SubSeq(output_parts', 1, Len(output_parts)) = output_parts
               /\ Contains(Last(output_parts'), "Info: Genie API status update")]_vars
    /\ [][PollFetchError
            => /\ LoopContinues
               /\ Len(output_parts') = Len(output_parts) + 1
               /\ SubSeq(output_parts', 1, Len(output_parts)) = output_parts
               /\ Contains(Last(output_parts'), "Error during polling: ")]_vars
    /\ [][(pc = "poll_top" /\ now - start_time < args.polling_timeout_seconds)
            => (pc' = "call" /\ callee' = "poll" /\ polls' = polls + 1
                /\ outcome' = "running")]_vars

\* C13 witness: a second poll is under way after a first one that was
\* answered with an error status, whose note is the only one since the submit.
C13_Witness ==
    /\ pc = "call" /\ callee = "poll" /\ polls = 2
    /\ Len(output_parts) = 2
    /\ Contains(output_parts[2], "Error during polling: HTTP 500")


\* the call of the helper that just ended used up its 429 budget
BudgetUsedUp ==
    /\ Len(answers) = max_retries
    /\ \A i \in 1..Len(answers) : answers[i] = 429

\* C14: a call of the helper whose every attempt was answered 429 ends
\* without raising and yields no data.  After the submit request this ends
\* the run: it returns an error string and no poll is ever begun.  After a
\* poll request the run goes on: one error note is appended, the loop sleeps
\* one polling interval and is back at its top (where the next poll begins
\* unless the timeout test ends the run).
C14_ExhaustedBudgetYieldsNoData ==
    /\ []((pc \in {"submit_ret", "poll_ret", "fetch_ret"} /\ BudgetUsedUp)
            => ret = [k |-> "none"])
    /\ []((pc \in {"submit_ret", "poll_ret", "fetch_ret"} /\ ret.k = "none")
            => BudgetUsedUp)
    /\ [][(pc = "submit_ret" /\ BudgetUsedUp)
            => /\ pc' = "done" /\ outcome' = "returned"
               /\ Contains(result', "Error: Failed to get response")
               /\ polls' = 0]_vars
    /\ []((pc = "done" /\ callee = "submit") => polls = 0)
    /\ [][(pc = "poll_ret" /\ BudgetUsedUp)
            => /\ output_parts'
                    = Append(output_parts, "Error: Failed to get polling response.")
               /\ now' = now + args.polling_interval_seconds
               /\ pc' = "poll_top" /\ outcome' = "running"]_vars

\* C14 witness: a second poll is under way after a first one that used up
\* its 429 budget and left its note.
C14_Witness ==
    /\ pc = "call" /\ callee = "poll" /\ polls = 2
    /\ output_parts[Len(output_parts)] = "Error: Failed to get polling response."
    /\ now - start_time = 14 + args.polling_interval_seconds


\* the extraction state after the first k attachments of the completed
\* response were scanned
ScanOf(k) ==
    ScanAttachments(ScanStart(NotAvailable, NotAvailable, Null),
                    SubSeq(Items, 1, k), args.fetch_query_results)

\* the scan of the completed response is over (its loop ended or broke)
Scanned ==
    /\ poll_data.t = "obj"
    /\ Len(Items) > 0
    /\ (Reported \/ callee = "fetch")

\* C15: along the scan of the attachments of a completed response, a response
\* text other than "Not available" is never followed by "Not available", and
\* neither is an SQL; an attachment that brings no text leaves the text as it
\* was and one that brings no SQL leaves the SQL as it was; the values the
\* scan ends with are those of the run.
C15_ScanKeepsFoundValues ==
    Scanned
        => /\ \A k \in 0..(Len(Items) - 1) :
                LET before == ScanOf(k)
                    after == ScanOf(k + 1)
                    a == Items[k + 1]
                IN  /\ before.text # NotAvailable => after.text # NotAvailable
                    /\ before.sql # NotAvailable => after.sql # NotAvailable
                    /\ (~before.stop /\ AttachmentText(a) = NotAvailable)
                          => after.text = before.text
                    /\ (~before.stop /\ QuerySql(a) = NotAvailable)
                          => after.sql = before.sql
                    /\ (~before.stop /\ AttachmentText(a) # NotAvailable)
                          => after.text = AttachmentText(a)
                    /\ (~before.stop /\ QuerySql(a) # NotAvailable)
                          => after.sql = QuerySql(a)
           /\ genie_response_text = ScanOf(Len(Items)).text
           /\ generated_sql = ScanOf(Len(Items)).sql

\* C15 witness: the first attachment brought the text and no SQL, the second
\* the SQL and no text, and the report has the text of the first.
C15_Witness ==
    /\ Reported /\ Len(Items) = 2
    /\ AttachmentText(Items[1]) # NotAvailable /\ QuerySql(Items[1]) = NotAvailable
    /\ AttachmentText(Items[2]) = NotAvailable /\ QuerySql(Items[2]) # NotAvailable
    /\ Contains(result, TextLine(AttachmentText(Items[1])))
    /\ Contains(result, SqlLine(QuerySql(Items[2])))


\* after the first k attachments both a response text and a real SQL string
\* are known
Sufficient(k) == ScanOf(k).text # NotAvailable /\ RealSql(ScanOf(k).sql)

\* C16: when p is the first position of the attachments after which both a
\* response text and a real SQL string are known, the response text, the SQL
\* and the attachment id of the run are those known after p, whatever the
\* attachments after p hold: they are the values of the report and the id of
\* the query-result GET.
C16_EarliestMatch ==
    Scanned
        => \A p \in 1..Len(Items) :
              (Sufficient(p) /\ \A j \in 1..(p - 1) : ~Sufficient(j))
                  => /\ genie_response_text = ScanOf(p).text
                     /\ generated_sql = ScanOf(p).sql
                     /\ attachment_id_for_results = ScanOf(p).att
                     /\ Reported
                           => /\ Contains(result, TextLine(ScanOf(p).text))
                              /\ Contains(result, SqlLine(ScanOf(p).sql))
                     /\ results_url # ""
                           => /\ Truthy(ScanOf(p).att)
                              /\ results_url = ResultsUrl(current_db_instance, self_space.v,
                                                          current_conversation_id.v,
                                                          message_id.v, ScanOf(p).att.v)

\* C16 witness: results were requested; the first of two attachments brought
\* text and real SQL and no id, the second another SQL and an id; the report
\* has the SQL of the first and no result was fetched for want of an id.
C16_Witness ==
    /\ Reported /\ Len(Items) = 2 /\ args.fetch_query_results
    /\ Sufficient(1)
    /\ Items[1].attachment_id = Absent /\ Items[2].attachment_id # Absent
    /\ CarriesRealSql(Items[2]) /\ QuerySql(Items[2]) # QuerySql(Items[1])
    /\ Contains(result, SqlLine(QuerySql(Items[1])))
    /\ Contains(result, ResultsLine("Not fetched; no attachment_id for results."))


\* a poll GET or a query-result GET is being made
GetIssued == pc = "call" /\ callee \in {"poll", "fetch"}

\* the part of C17 that the code keeps: whenever a poll GET or a query-result
\* GET is made, the conversation id and the message id are non-empty strings
\* and are part of the url
C17_IdsBeforeRequests ==
    GetIssued
        => /\ Truthy(current_conversation_id) /\ Truthy(message_id)
           /\ Contains(url, "/conversations/" \o current_conversation_id.v
                            \o "/messages/" \o message_id.v)

\* C17, as claimed: whenever a poll GET or a query-result GET is made, the
\* conversation id and the message id are non-empty; and the step that
\* follows the submit request, on either path, either has both ids and goes
\* to the poll loop or makes the run return an error string with no poll
\* begun.
C17_IdsOrErrorString ==
    /\ [](GetIssued => (Truthy(current_conversation_id) /\ Truthy(message_id)))
    /\ [][pc = "submit_ret"
            => \/ /\ pc' = "poll_top"
                  /\ Truthy(current_conversation_id') /\ Truthy(message_id')
               \/ /\ outcome' = "returned"
                  /\ Contains(result', "Error")
                  /\ polls' = 0]_vars


\* a poll ended in a way that ends the run with the notes: FAILED, CANCELLED,
\* or an exception that is no RequestException
PollFatal ==
    \/ PollGaveStatus(Str("FAILED"))
    \/ PollGaveStatus(Str("CANCELLED"))
    \/ (PollEnded /\ ret.k = "other")
    \/ (PollEnded /\ ret.k = "data" /\ ret.body.t = "list")

\* the run returns the notes, with one note more, and makes no request
ReturnsNotesNow ==
    /\ pc' = "done" /\ outcome' = "returned"
    /\ Len(output_parts') = Len(output_parts) + 1
    /\ SubSeq(output_parts', 1, Len(output_parts)) = output_parts
    /\ result' = JoinLines(output_parts')
    /\ now' = now
    /\ UNCHANGED <<polls, results_url, answers>>

\* a request of the named step begins
Begins(who) == pc # "call" /\ pc' = "call" /\ callee' = who

\* C18: the steps of a run come in the order submit, poll, fetch, report.
\* The submit request begins a run; a poll begins at the top of the loop,
\* which is reached from the submit step or from a poll; the query-result GET
\* begins only in the step that follows a poll answered COMPLETED, and the
\* report follows its end, so that it is made at most once.  After FAILED or
\* CANCELLED, after the timeout and after an exception that is no
\* RequestException, the run returns the notes at once; a run that returned
\* makes no further request (the next request is the submit of a new run).
C18_StepsInOrder ==
    /\ [][Begins("submit") => (pc \in {"ready", "done"} /\ polls' = 0)]_vars
    /\ [][Begins("poll") => pc = "poll_top"]_vars
    /\ [][pc' = "poll_top" => pc \in {"submit_ret", "poll_ret"}]_vars
    /\ [][Begins("fetch") => PollGaveStatus(Str("COMPLETED"))]_vars
    /\ [][pc = "fetch_ret" => (pc' = "done" /\ outcome' = "returned"
                               /\ Contains(result', "\nQuery Results: "))]_vars
    /\ [][PollFatal => ReturnsNotesNow]_vars
    /\ [][(pc = "poll_top" /\ now - start_time > args.polling_timeout_seconds)
            => (ReturnsNotesNow /\ Last(output_parts') = "Error: Polling timed out.")]_vars
    /\ [][pc = "done" => Begins("submit")]_vars
    /\ []((pc = "done" /\ results_url = "") => callee # "fetch")

\* C18 witness: results were requested, the first poll was answered FAILED and
\* the run returned its notes with no query-result GET and no second poll.
C18_Witness ==
    /\ pc = "done" /\ outcome = "returned" /\ args.fetch_query_results
    /\ polls = 1 /\ callee = "poll" /\ results_url = ""
    /\ Contains(result, "Error: Genie processing FAILED. Details: quota")


\* a poll ended in a way that makes the loop go on
PollGoesOn ==
    \/ (PollEnded /\ ret.k \in {"none", "http", "reqexc"})
    \/ (PollEnded /\ ret.k = "data" /\ ret.body.t = "null")
    \/ PollInProgress
    \/ PollUnrecognized

PollTerminal ==
    \/ PollGaveStatus(Str("COMPLETED"))
    \/ PollGaveStatus(Str("FAILED"))
    \/ PollGaveStatus(Str("CANCELLED"))

\* C19: from the end of a poll operation to the beginning of the next, the
\* clock advances by one polling interval exactly: the step that follows a
\* poll which yielded no data, IN_PROGRESS, an unknown status or a fetch
\* error sleeps the interval once and reaches the loop top, and the step
\* from the loop top into the next poll does not sleep.  The step that
\* follows a COMPLETED, FAILED or CANCELLED poll does not sleep and does not
\* reach the loop top.
C19_OneSleepBetweenPolls ==
    /\ [][PollGoesOn
            => (pc' = "poll_top" /\ now' = now + args.polling_interval_seconds)]_vars
    /\ [][(pc = "poll_ret" /\ pc' = "poll_top") => PollGoesOn]_vars
    /\ [][pc = "poll_top" => now' = now]_vars
    /\ [][Begins("poll") => (pc = "poll_top" /\ polls' = polls + 1)]_vars
    /\ [][PollTerminal => (now' = now /\ pc' # "poll_top" /\ polls' = polls)]_vars

\* C19 witness: the second poll begins one interval after polling began, the
\* first having been answered IN_PROGRESS at once.
C19_Witness ==
    /\ pc = "call" /\ callee = "poll" /\ polls = 2 /\ answers = <<>>
    /\ Len(output_parts) = 1
    /\ now - start_time = args.polling_interval_seconds


\* the locals of _run as they are when a call begins, for its arguments
FreshLocals ==
    /\ current_db_instance' = NormalizeInstance(self_inst.v)
    /\ current_conversation_id' = args'.conversation_id
    /\ message_id' = Null
    /\ output_parts' = <<>>
    /\ polls' = 0 /\ now' = 0 /\ start_time' = 0
    /\ genie_response_text' = "" /\ generated_sql' = ""
    /\ attachment_id_for_results' = Null /\ poll_data' = Null
    /\ results_url' = "" /\ query_results_str' = "" /\ result' = ""
    /\ retry_count' = 0 /\ answers' = <<>> /\ sleeps' = <<>> /\ ret' = Idle
    /\ url' = IF Truthy(args'.conversation_id)
              THEN FollowUpUrl(current_db_instance', self_space.v, args'.conversation_id.v)
              ELSE StartConversationUrl(current_db_instance', self_space.v)

RECURSIVE Sum(_)
Sum(seq) == IF Len(seq) = 0 THEN 0 ELSE Head(seq) + Sum(Tail(seq))

\* a call of the helper has ended and its caller has not yet looked at it
CallEnded == pc \in {"submit_ret", "poll_ret", "fetch_ret"}

\* C21: a call of the helper makes at most 3 HTTP requests and sleeps at
\* most 2 + 4 + 8 = 14 s in all, one backoff sleep for each 429 answer; it
\* ends in one of three ways, decided by its last answer: with the data of a
\* 200 answer; with an error raised, for an answer that is neither 200 nor
\* 429, for no answer, or for a 200 answer whose body is no JSON; or with no
\* data, after three 429 answers.  Every call ends.
C21_HelperTerminates ==
    /\ [](/\ Len(answers) <= 3
          /\ Sum(sleeps) <= 14
          /\ Len(sleeps) <= Len(answers)
          /\ \A i \in 1..Len(sleeps) : answers[i] = 429 /\ sleeps[i] = 2 ^ i
          /\ pc = "call" => (Len(answers) < 3 /\ Len(sleeps) = Len(answers)))
    /\ [](CallEnded
            => /\ Len(answers) >= 1
               /\ ret.k \in {"data", "http", "reqexc", "other", "none"}
               /\ ret.k = "data" <=> (Last(answers) = 200 /\ "body" \in DOMAIN ret)
               /\ ret.k = "none" <=> answers = <<429, 429, 429>>
               /\ ret.k = "http" <=> Last(answers) \notin {0, 200, 429}
               /\ ret.k \in {"reqexc", "other"}
                     <=> (Last(answers) = 0
                          \/ (Last(answers) = 200 /\ "body" \notin DOMAIN ret)))
    /\ (pc = "call") ~> (pc # "call")

\* C21 witness: a call ended with the data of a 200 answer that came after
\* two 429 answers and sleeps of 2 s and 4 s.
C21_Witness ==
    /\ CallEnded /\ ret.k = "data"
    /\ answers = <<429, 429, 200>> /\ sleeps = <<2, 4>>

====
